---- MODULE Spec2Model ----
(***************************************************************************)
(* Curtain fabric calculator: the layout optimizer findOptimalSolution    *)
(* and the UI handlers that call it, for each copy of the program in the   *)
(* repository.                                                             *)
(*                                                                         *)
(* Lengths are JavaScript numbers carrying at most one decimal place       *)
(* (netWidth is rounded to one decimal).  The model holds every length as  *)
(* an integer count of tenths of the variant's unit (Scale = 10), so       *)
(* 180 mm is 1800.  Arithmetic is exact (IEEE doubles agree except when a  *)
(* quotient lies within rounding error of half a tenth); Infinity is a     *)
(* sentinel above every length.                                            *)
(***************************************************************************)
EXTENDS Integers, Sequences, FiniteSets, TLC

(* ------------------------------ bounds --------------------------------- *)
\* Largest roll count a width may hold in the sampled inventories.
MaxRolls == 31
\* Largest number of widths stocked at once in the sampled inventories.
MaxStockedWidths == 2
\* Largest total roll count plus clicks may reach in the event-driven runs.
MaxClickRolls == 2

(* ----------------------------- constants ------------------------------- *)
Scale == 10
Infinity == 2000000000
Null == [null |-> TRUE]

\* const fabricWidths = [2100, 2000, 1900, 1500]
fabricWidths == <<2100, 2000, 1900, 1500>>
FabricWidthSet == {fabricWidths[i] : i \in 1..Len(fabricWidths)}

ROLL_LENGTH_MM == 5000
\* Mutant of PartsCap: the ceiling on the parts loop twice as high.
PartsCapDoubled == 30 + 30
PartsCap == 30
\* Mutant of PartsMargin: the heuristic bound without its margin.
PartsMarginNone == 5 - 5
PartsMargin == 5
\* Mutant of FirstParts: the parts loop starts at a single panel.
FirstPartsFromOne == 2 - 1
FirstParts == 2

\* The copies of the program.
\*   rollLength     src/app.js:1-916 and 1285-2354 (button driven, no language selector)
\*   rollLengthLang src/unnamed/part_001:1-820     (button driven, language selector)
\*   cm             src/app.js:917-1284            (recalculates on every event)
\*   cmLang         src/unnamed/part_000           (the same, with language selector)
\*   fold1800       src/unnamed/part_001:821-1607  (recalculates on every event)
\*   mm             src/unnamed/part_001:1608-2424 (button driven, language selector)
Variants == {"rollLength", "rollLengthLang", "cm", "cmLang", "fold1800", "mm"}

\* Which findOptimalSolution a copy carries.
Algorithm(v) ==
    CASE v \in {"rollLength", "rollLengthLang"} -> "RL"
      [] v \in {"cm", "cmLang"} -> "CM"
      [] v = "fold1800" -> "F1800"
      [] v = "mm" -> "MM"

AutoCalculate(v) == v \in {"cm", "cmLang", "fold1800"}
HasLanguageSelector(v) == v \in {"rollLengthLang", "cmLang", "fold1800", "mm"}
HasExportToggle(v) == v # "cm"

OUTER_FOLD_MM(v) == IF Algorithm(v) = "F1800" THEN 1800 * Scale ELSE 180 * Scale
INNER_FOLD_MM(v) == IF Algorithm(v) = "F1800" THEN 800 * Scale ELSE 80 * Scale

\* Mutant of FabricWidthUnits: the roll width left in millimetres in every
\* copy.
FabricWidthUnitsNoConversion(v, fabricWidthMm) == fabricWidthMm * Scale

\* Mutant of FabricWidthUnits: the roll width taken ten times too wide.
FabricWidthUnitsTenfold(v, fabricWidthMm) ==
    IF Algorithm(v) = "CM" THEN fabricWidthMm * Scale ELSE fabricWidthMm * Scale * 10

\* The roll width in the unit the fit check uses: fabricWidthMm / 10 (cm) in
\* the cm copies, fabricWidthMm elsewhere; both in tenths.
FabricWidthUnits(v, fabricWidthMm) ==
    IF Algorithm(v) = "CM" THEN (fabricWidthMm * Scale) \div 10 ELSE fabricWidthMm * Scale

(* ----------------------------- arithmetic ------------------------------ *)
Min2(a, b) == IF a <= b THEN a ELSE b
Max2(a, b) == IF a >= b THEN a ELSE b

\* Math.ceil(n / d) for d > 0.
MathCeil(n, d) == -((-n) \div d)

\* Math.floor(n / d) for any finite n > 0 and any d: n / 0 is Infinity.
MathFloor(n, d) ==
    IF d = 0 THEN Infinity
    ELSE IF d > 0 THEN n \div d
    ELSE -MathCeil(n, -d)

\* Math.round(n / d) for d > 0: nearest integer, halves towards +Infinity.
\* Mutant of MathRound: the quotient cut off after the tenths.
MathRoundDown(n, d) == n \div d
MathRound(n, d) == (2 * n + d) \div (2 * d)

\* a * b where b may be Infinity and a > 0.
Times(a, b) == IF b = Infinity THEN Infinity ELSE a * b

(* --------------------------- findOptimalSolution ----------------------- *)
\* Mutant of PanelsPerRoll: Math.ceil in place of Math.floor.
PanelsPerRollRoundedUp(curtainHeight) ==
    IF curtainHeight = 0 THEN Infinity
    ELSE MathCeil(ROLL_LENGTH_MM * Scale, curtainHeight)

\* const panelsPerRoll = Math.floor(ROLL_LENGTH_MM / curtainHeight)
PanelsPerRoll(curtainHeight) == MathFloor(ROLL_LENGTH_MM * Scale, curtainHeight)

\* Mutant of RollsNeeded: the quotient rounded down.
RollsNeededFloor(parts, panelsPerRoll) ==
    IF panelsPerRoll = Infinity THEN 0 ELSE parts \div panelsPerRoll

\* const rollsNeeded = Math.ceil(parts / panelsPerRoll); parts / Infinity is 0.
RollsNeeded(parts, panelsPerRoll) ==
    IF panelsPerRoll = Infinity THEN 0 ELSE MathCeil(parts, panelsPerRoll)

\* The head of the fabric loop: the widths the search passes over.
SkipFabric(v, curtainHeight, availableRolls) ==
    \/ availableRolls = 0
    \/ /\ Algorithm(v) = "RL"
       /\ PanelsPerRoll(curtainHeight) < 1

\* The upper bound of the parts loop.
MaxPartsToTest(v, totalCurtainWidth, curtainHeight, availableRolls, fabricWidthMm) ==
    LET heuristic == MathCeil(totalCurtainWidth, fabricWidthMm * Scale) + PartsMargin
    IN  CASE Algorithm(v) = "RL" ->
               Min2(Min2(Times(availableRolls, PanelsPerRoll(curtainHeight)), heuristic),
                    PartsCap)
          [] Algorithm(v) \in {"MM", "F1800"} ->
               Max2(availableRolls, Min2(heuristic, PartsCap))
          [] Algorithm(v) = "CM" -> availableRolls

\* The values parts takes for one fabric width: none for a width the fabric
\* loop passes over.
SearchRange(v, totalCurtainWidth, curtainHeight, inventory, fabricWidthMm) ==
    IF SkipFabric(v, curtainHeight, inventory[fabricWidthMm]) THEN {}
    ELSE FirstParts .. MaxPartsToTest(v, totalCurtainWidth, curtainHeight,
                                      inventory[fabricWidthMm], fabricWidthMm)

\* Mutant of EnoughRolls: no part count is skipped for want of rolls.
EnoughRollsAlways(v, curtainHeight, availableRolls, parts) == TRUE

\* Mutant of EnoughRolls: parts >= availableRolls is skipped, so a layout can
\* never use every roll of a width.
EnoughRollsStrict(v, curtainHeight, availableRolls, parts) ==
    CASE Algorithm(v) = "RL" ->
           ~(RollsNeeded(parts, PanelsPerRoll(curtainHeight)) >= availableRolls)
      [] Algorithm(v) \in {"MM", "F1800"} -> ~(parts >= availableRolls)
      [] Algorithm(v) = "CM" -> TRUE

\* The roll check at the head of the parts loop body ("Skip if we don't have
\* enough rolls"); the cm copies have none.
EnoughRolls(v, curtainHeight, availableRolls, parts) ==
    CASE Algorithm(v) = "RL" ->
           ~(RollsNeeded(parts, PanelsPerRoll(curtainHeight)) > availableRolls)
      [] Algorithm(v) \in {"MM", "F1800"} -> ~(parts > availableRolls)
      [] Algorithm(v) = "CM" -> TRUE

\* The dividend of netWidth, before the division by parts.
NetNumerator(v, totalCurtainWidth, parts) ==
    CASE Algorithm(v) \in {"RL", "MM"} -> totalCurtainWidth
      [] Algorithm(v) = "F1800" ->
           totalCurtainWidth - 2 * OUTER_FOLD_MM(v) - (parts - 2) * INNER_FOLD_MM(v)
      [] Algorithm(v) = "CM" ->
           totalCurtainWidth + 2 * 180 * Scale + (parts - 2) * 80 * Scale

\* Number.isInteger(netWidth) in the cm copies; the other copies round.
NetWidthAccepted(v, totalCurtainWidth, parts) ==
    LET num == NetNumerator(v, totalCurtainWidth, parts)
    IN  IF Algorithm(v) = "CM" THEN num % (parts * Scale) = 0 ELSE ~(num <= 0)

\* netWidth as stored: the exact quotient (cm copies) or
\* Math.round(netWidth * 10) / 10 (the other copies), in tenths.
NetWidth(v, totalCurtainWidth, parts) ==
    LET num == NetNumerator(v, totalCurtainWidth, parts)
    IN  IF Algorithm(v) = "CM" THEN num \div parts ELSE MathRound(num, parts)

\* Mutant of OuterCutWidth: the inner fold added to the outer panels too.
OuterCutWidthInnerFold(v, netWidth) == netWidth + INNER_FOLD_MM(v)
OuterCutWidth(v, netWidth) == netWidth + OUTER_FOLD_MM(v)
InnerCutWidth(v, netWidth) == netWidth + INNER_FOLD_MM(v)

\* Mutant of FitsFabric: no cut width is compared with the roll.
FitsFabricAlways(outerCutWidth, innerCutWidth, fabricWidth) == TRUE

\* Mutant of FitsFabric: only the inner panels are compared with the roll.
FitsFabricInnerOnly(outerCutWidth, innerCutWidth, fabricWidth) ==
    ~(innerCutWidth > fabricWidth)

\* "Validate that cut widths fit within fabric width".
FitsFabric(outerCutWidth, innerCutWidth, fabricWidth) ==
    ~(outerCutWidth > fabricWidth \/ innerCutWidth > fabricWidth)

\* Mutant of Waste: every panel counted as an outer panel.
WasteAllOuter(fabricWidth, parts, outerCutWidth, innerCutWidth) ==
    parts * (fabricWidth - outerCutWidth)

\* Mutant of Waste: the differences taken the other way round.
WasteReversed(fabricWidth, parts, outerCutWidth, innerCutWidth) ==
    2 * (outerCutWidth - fabricWidth) + (parts - 2) * (innerCutWidth - fabricWidth)

\* waste = 2 * (fabricWidth - outerCutWidth) + (parts - 2) * (fabricWidth - innerCutWidth)
Waste(fabricWidth, parts, outerCutWidth, innerCutWidth) ==
    2 * (fabricWidth - outerCutWidth) + (parts - 2) * (fabricWidth - innerCutWidth)

\* "Only consider solutions with non-negative waste"; the cm copies have no
\* such check.
WasteRejected(v, waste) == Algorithm(v) # "CM" /\ waste < 0

\* The object literal stored in bestSolution.
MakeSolution(v, fabricWidthMm, parts, netWidth, outerCutWidth, innerCutWidth, waste, rollsNeeded, panelsPerRoll) ==
    IF Algorithm(v) = "RL"
    THEN [fabricWidth |-> fabricWidthMm, parts |-> parts, netWidth |-> netWidth,
          outerPanelWidth |-> outerCutWidth, innerPanelWidth |-> innerCutWidth,
          waste |-> waste, rollsNeeded |-> rollsNeeded, panelsPerRoll |-> panelsPerRoll]
    ELSE [fabricWidth |-> fabricWidthMm, parts |-> parts, netWidth |-> netWidth,
          outerPanelWidth |-> outerCutWidth, innerPanelWidth |-> innerCutWidth,
          waste |-> waste]

\* One pass of the parts loop body up to the comparison with minWaste: the
\* check that drops the candidate ("valid" when none does) and the Solution
\* it would store.
EvalCandidate(v, totalCurtainWidth, curtainHeight, inventory, fabricWidthMm, parts) ==
    LET availableRolls == inventory[fabricWidthMm]
        fabricWidth == FabricWidthUnits(v, fabricWidthMm)
        netWidth == NetWidth(v, totalCurtainWidth, parts)
        outerCutWidth == OuterCutWidth(v, netWidth)
        innerCutWidth == InnerCutWidth(v, netWidth)
        waste == Waste(fabricWidth, parts, outerCutWidth, innerCutWidth)
        verdict ==
            IF ~EnoughRolls(v, curtainHeight, availableRolls, parts) THEN "notEnoughRolls"
            ELSE IF ~NetWidthAccepted(v, totalCurtainWidth, parts) THEN "netWidthRejected"
            ELSE IF ~FitsFabric(outerCutWidth, innerCutWidth, fabricWidth) THEN "tooWide"
            ELSE IF WasteRejected(v, waste) THEN "negativeWaste"
            ELSE "valid"
    IN  [verdict |-> verdict,
         solution |-> MakeSolution(v, fabricWidthMm, parts, netWidth, outerCutWidth,
                                   innerCutWidth, waste,
                                   RollsNeeded(parts, PanelsPerRoll(curtainHeight)),
                                   PanelsPerRoll(curtainHeight))]

\* Mutant of KeepBest: waste > minWaste, the candidate of most waste is kept.
KeepWorst(acc, candidate) ==
    IF /\ candidate.verdict = "valid"
       /\ (acc.bestSolution = Null \/ candidate.solution.waste > acc.minWaste)
    THEN [bestSolution |-> candidate.solution, minWaste |-> candidate.solution.waste]
    ELSE acc

\* Mutant of KeepBest: every valid candidate replaces the one kept.
KeepLatest(acc, candidate) ==
    IF candidate.verdict = "valid"
    THEN [bestSolution |-> candidate.solution, minWaste |-> candidate.solution.waste]
    ELSE acc

\* Mutant of KeepBest: waste <= minWaste, so a tie replaces the one kept.
KeepBestOrEqual(acc, candidate) ==
    IF candidate.verdict = "valid" /\ candidate.solution.waste <= acc.minWaste
    THEN [bestSolution |-> candidate.solution, minWaste |-> candidate.solution.waste]
    ELSE acc

\* if (waste < minWaste) { minWaste = waste; bestSolution = {...} }
KeepBest(acc, candidate) ==
    CHOOSE result \in
        {IF c.verdict = "valid" /\ c.solution.waste < acc.minWaste
         THEN [bestSolution |-> c.solution, minWaste |-> c.solution.waste]
         ELSE acc
            : c \in {candidate}} : TRUE

\* Mutant of PartsLoop: parts < maxPartsToTest, the last count is skipped.
RECURSIVE PartsLoopExclusive(_, _, _, _, _, _, _, _)
PartsLoopExclusive(v, totalCurtainWidth, curtainHeight, inventory, fabricWidthMm, parts, maxPartsToTest, acc) ==
    IF ~(parts < maxPartsToTest) THEN acc
    ELSE CHOOSE result \in
             {PartsLoopExclusive(v, totalCurtainWidth, curtainHeight, inventory,
                                 fabricWidthMm, parts + 1, maxPartsToTest,
                                 KeepBest(best, EvalCandidate(v, totalCurtainWidth,
                                                              curtainHeight, inventory,
                                                              fabricWidthMm, parts)))
                : best \in {acc}} : TRUE

\* for (let parts = 2; parts <= maxPartsToTest; parts++) { ... }
\* (minWaste and bestSolution are values when a pass starts: best \in {acc}
\* binds the accumulator evaluated once.)
RECURSIVE PartsLoop(_, _, _, _, _, _, _, _)
PartsLoop(v, totalCurtainWidth, curtainHeight, inventory, fabricWidthMm, parts, maxPartsToTest, acc) ==
    IF ~(parts <= maxPartsToTest) THEN acc
    ELSE CHOOSE result \in
             {PartsLoop(v, totalCurtainWidth, curtainHeight, inventory, fabricWidthMm,
                        parts + 1, maxPartsToTest,
                        KeepBest(best, EvalCandidate(v, totalCurtainWidth, curtainHeight,
                                                     inventory, fabricWidthMm, parts)))
                : best \in {acc}} : TRUE

\* for (const fabricWidthMm of fabricWidths) { ... }
RECURSIVE FabricLoop(_, _, _, _, _, _)
FabricLoop(v, totalCurtainWidth, curtainHeight, inventory, i, acc) ==
    IF i > Len(fabricWidths) THEN acc
    ELSE CHOOSE result \in
             {FabricLoop(v, totalCurtainWidth, curtainHeight, inventory, i + 1,
                  IF SkipFabric(v, curtainHeight, inventory[fabricWidths[i]]) THEN best
                  ELSE PartsLoop(v, totalCurtainWidth, curtainHeight, inventory,
                                 fabricWidths[i], FirstParts,
                                 MaxPartsToTest(v, totalCurtainWidth, curtainHeight,
                                                inventory[fabricWidths[i]],
                                                fabricWidths[i]),
                                 best))
                : best \in {acc}} : TRUE

\* let bestSolution = null; let minWaste = Infinity; ...; return bestSolution
findOptimalSolution(v, totalCurtainWidth, curtainHeight, inventory) ==
    FabricLoop(v, totalCurtainWidth, curtainHeight, inventory, 1,
               [bestSolution |-> Null, minWaste |-> Infinity]).bestSolution

(* ------------------------------- state --------------------------------- *)
VARIABLES
    variant,          \* which copy of the program is running
    curtainHeight,    \* state.curtainHeight
    curtainWidth,     \* state.curtainWidth
    fabricInventory,  \* state.fabricInventory
    diagramLanguage,  \* state.diagramLanguage
    results,          \* content of the #results panel
    diagram,          \* content of #diagram-container (Null when empty)
    diagramSolution,  \* state.diagramSolution
    exportDisabled,   \* #export-pdf-btn.disabled
    lastCall          \* the invocation of findOptimalSolution the latest handler
                      \* made (NoCall when it made none)

vars == <<variant, curtainHeight, curtainWidth, fabricInventory, diagramLanguage,
          results, diagram, diagramSolution, exportDisabled, lastCall>>

view == [results |-> results, diagram |-> diagram, diagramSolution |-> diagramSolution,
         exportDisabled |-> exportDisabled, lastCall |-> lastCall]

NoCall == [called |-> FALSE]

EmptyInventory == [w \in FabricWidthSet |-> 0]

\* const state = { ... } of each copy.
DefaultState(v) ==
    CASE v \in {"cm", "cmLang"} ->
           [curtainHeight |-> 250 * Scale, curtainWidth |-> 5989 * Scale,
            fabricInventory |-> [EmptyInventory EXCEPT ![1900] = 4]]
      [] v = "fold1800" ->
           [curtainHeight |-> 2500 * Scale, curtainWidth |-> 59890 * Scale,
            fabricInventory |-> [EmptyInventory EXCEPT ![1900] = 4]]
      [] OTHER ->
           [curtainHeight |-> 0, curtainWidth |-> 0, fabricInventory |-> EmptyInventory]

Languages == {"en", "he"}

(* ------------------------------ handlers ------------------------------- *)
\* Object.values(state.fabricInventory).reduce((sum, qty) => sum + qty, 0)
RECURSIVE SumFrom(_, _)
SumFrom(inventory, i) ==
    IF i > Len(fabricWidths) THEN 0
    ELSE inventory[fabricWidths[i]] + SumFrom(inventory, i + 1)
totalInventory(inventory) == SumFrom(inventory, 1)

\* The record of one invocation of findOptimalSolution.
Invocation(v, caller, W, H, inventory) ==
    [called |-> TRUE, caller |-> caller, curtainWidth |-> W, curtainHeight |-> H,
     fabricInventory |-> inventory, result |-> findOptimalSolution(v, W, H, inventory)]

\* renderDiagram(solution): what the diagram container then shows, the panels
\* of the solution labelled in the diagram language.
renderDiagram(solution, lang) == [solution |-> solution, language |-> lang]

\* renderDiagram's last statement, state.diagramSolution = solution; the
\* copy at src/app.js:917 keeps no such field.
StoredDiagramSolution(v, solution, old) == IF v = "cm" THEN old ELSE solution

\* calculate() from "const solution = findOptimalSolution()" on.
calculateWith(v, lang, old, call) ==
    IF call.result = Null
    THEN [old EXCEPT !.results = [kind |-> "noSolution"], !.diagram = Null,
                     !.exportDisabled = IF HasExportToggle(v) THEN TRUE ELSE @,
                     !.lastCall = call]
    ELSE [results |-> [kind |-> "solution", solution |-> call.result],
          diagram |-> renderDiagram(call.result, lang),
          diagramSolution |-> StoredDiagramSolution(v, call.result, old.diagramSolution),
          exportDisabled |-> IF HasExportToggle(v) THEN FALSE ELSE old.exportDisabled,
          lastCall |-> call]

\* Mutant of calculate: the test of the total inventory left out.
calculateNoInventoryCheck(v, W, H, inventory, lang, old) ==
    IF H <= 0 \/ W <= 0
    THEN [old EXCEPT !.results = [kind |-> "invalidDimensions"], !.diagram = Null,
                     !.lastCall = NoCall]
    ELSE CHOOSE new \in {calculateWith(v, lang, old, call)
                            : call \in {Invocation(v, "calculate", W, H, inventory)}}
            : TRUE

\* calculate(): the display after it ran on the current state, given the
\* display before.
calculate(v, W, H, inventory, lang, old) ==
    IF H <= 0 \/ W <= 0
    THEN [old EXCEPT !.results = [kind |-> "invalidDimensions"], !.diagram = Null,
                     !.lastCall = NoCall]
    ELSE IF totalInventory(inventory) = 0
    THEN [old EXCEPT !.results = [kind |-> "noInventory"], !.diagram = Null,
                     !.lastCall = NoCall]
    ELSE CHOOSE new \in {calculateWith(v, lang, old, call)
                            : call \in {Invocation(v, "calculate", W, H, inventory)}}
            : TRUE

\* The 'change' listener of #diagram-language, from
\* "const solution = findOptimalSolution()" on.
languageChangedWith(v, lang, old, call) ==
    IF call.result # Null
    THEN [old EXCEPT !.diagram = renderDiagram(call.result, lang),
                     !.diagramSolution = StoredDiagramSolution(v, call.result, @),
                     !.lastCall = call]
    ELSE [old EXCEPT !.lastCall = call]

languageChanged(v, W, H, inventory, lang, old) ==
    CHOOSE new \in {languageChangedWith(v, lang, old, call)
                       : call \in {Invocation(v, "languageChange", W, H, inventory)}}
       : TRUE

SetView(new) ==
    /\ results' = new.results
    /\ diagram' = new.diagram
    /\ diagramSolution' = new.diagramSolution
    /\ exportDisabled' = new.exportDisabled
    /\ lastCall' = new.lastCall

\* Values typed into the dimension fields (tenths): a negative width and a
\* width that admits a layout for some inventories only; no height (an
\* empty field parses to 0) and a height of which two fit on a roll.
WidthInputs == {-400 * Scale, 3800 * Scale}
HeightInputs == {0, 2500 * Scale}

\* 'input' listener of #curtain-height
HeightInput(h) ==
    /\ curtainHeight' = h
    /\ UNCHANGED <<variant, curtainWidth, fabricInventory, diagramLanguage>>
    /\ IF AutoCalculate(variant)
       THEN SetView(calculate(variant, curtainWidth, h, fabricInventory,
                              diagramLanguage, view))
       ELSE /\ lastCall' = NoCall
            /\ UNCHANGED <<results, diagram, diagramSolution, exportDisabled>>

\* 'input' listener of #curtain-width
WidthInput(w) ==
    /\ curtainWidth' = w
    /\ UNCHANGED <<variant, curtainHeight, fabricInventory, diagramLanguage>>
    /\ IF AutoCalculate(variant)
       THEN SetView(calculate(variant, w, curtainHeight, fabricInventory,
                              diagramLanguage, view))
       ELSE /\ lastCall' = NoCall
            /\ UNCHANGED <<results, diagram, diagramSolution, exportDisabled>>

\* 'click' listener of a .btn-plus
PlusClick(width) ==
    /\ totalInventory(fabricInventory) < MaxClickRolls
    /\ fabricInventory' = [fabricInventory EXCEPT ![width] = @ + 1]
    /\ UNCHANGED <<variant, curtainHeight, curtainWidth, diagramLanguage>>
    /\ IF AutoCalculate(variant)
       THEN SetView(calculate(variant, curtainWidth, curtainHeight, fabricInventory',
                              diagramLanguage, view))
       ELSE /\ lastCall' = NoCall
            /\ UNCHANGED <<results, diagram, diagramSolution, exportDisabled>>

\* Mutant of MinusClick: the count is taken down without the test for > 0.
MinusClickUnguarded(width) ==
    /\ fabricInventory' = [fabricInventory EXCEPT ![width] = @ - 1]
    /\ UNCHANGED <<variant, curtainHeight, curtainWidth, diagramLanguage>>
    /\ IF AutoCalculate(variant)
       THEN SetView(calculate(variant, curtainWidth, curtainHeight,
                              fabricInventory', diagramLanguage, view))
       ELSE /\ lastCall' = NoCall
            /\ UNCHANGED <<results, diagram, diagramSolution, exportDisabled>>

\* 'click' listener of a .btn-minus
MinusClick(width) ==
    IF fabricInventory[width] > 0
    THEN /\ fabricInventory' = [fabricInventory EXCEPT ![width] = @ - 1]
         /\ UNCHANGED <<variant, curtainHeight, curtainWidth, diagramLanguage>>
         /\ IF AutoCalculate(variant)
            THEN SetView(calculate(variant, curtainWidth, curtainHeight,
                                   fabricInventory', diagramLanguage, view))
            ELSE /\ lastCall' = NoCall
                 /\ UNCHANGED <<results, diagram, diagramSolution, exportDisabled>>
    ELSE /\ lastCall' = NoCall
         /\ UNCHANGED <<variant, curtainHeight, curtainWidth, fabricInventory,
                        diagramLanguage, results, diagram, diagramSolution,
                        exportDisabled>>

\* 'change' listener of #diagram-language
LanguageChange(lang) ==
    /\ HasLanguageSelector(variant)
    /\ diagramLanguage' = lang
    /\ UNCHANGED <<variant, curtainHeight, curtainWidth, fabricInventory>>
    /\ SetView(languageChanged(variant, curtainWidth, curtainHeight, fabricInventory,
                               lang, view))

\* 'click' listener of #calculate-btn
CalculateClick ==
    /\ ~AutoCalculate(variant)
    /\ UNCHANGED <<variant, curtainHeight, curtainWidth, fabricInventory,
                   diagramLanguage>>
    /\ SetView(calculate(variant, curtainWidth, curtainHeight, fabricInventory,
                         diagramLanguage, view))

\* The page after DOMContentLoaded: the default state, and in the copies that
\* calculate on load the display calculate() leaves.
Init ==
    /\ variant \in Variants
    /\ curtainHeight = DefaultState(variant).curtainHeight
    /\ curtainWidth = DefaultState(variant).curtainWidth
    /\ fabricInventory = DefaultState(variant).fabricInventory
    /\ diagramLanguage = "en"
    /\ \E disabled \in BOOLEAN :
         LET blank == [results |-> [kind |-> "initial"], diagram |-> Null,
                       diagramSolution |-> Null, exportDisabled |-> disabled,
                       lastCall |-> NoCall]
             loaded == IF AutoCalculate(variant)
                       THEN calculate(variant, curtainWidth, curtainHeight,
                                      fabricInventory, diagramLanguage, blank)
                       ELSE blank
         IN  /\ results = loaded.results
             /\ diagram = loaded.diagram
             /\ diagramSolution = loaded.diagramSolution
             /\ exportDisabled = loaded.exportDisabled
             /\ lastCall = loaded.lastCall

Next ==
    \/ \E h \in HeightInputs : HeightInput(h)
    \/ \E w \in WidthInputs : WidthInput(w)
    \/ \E width \in FabricWidthSet : PlusClick(width)
    \/ \E width \in FabricWidthSet : MinusClick(width)
    \/ \E lang \in Languages : LanguageChange(lang)
    \/ CalculateClick

Spec == Init /\ [][Next]_vars

(* ------------------- direct calls of findOptimalSolution --------------- *)
\* Roll counts of the sampled inventories: none, few, the counts at which
\* two widths tie, and more than the cap of 30.
RollChoices == {0, 4, 20, 21, MaxRolls}

Inventories ==
    {inventory \in [FabricWidthSet -> RollChoices] :
        Cardinality({w \in FabricWidthSet : inventory[w] > 0}) <= MaxStockedWidths}

\* Sampled curtain widths (tenths): zero and negative; a width one roll
\* covers; a width with a half tenth at two parts; the defaults 5989 and
\* 59890; 23000, where 20 parts of 2100 and 21 parts of 2000 waste the same
\* in the 1800/800 copy; 58900 = 31 * 1900.
WidthChoices ==
    {0, -400 * Scale, 1500 * Scale, 30005, 5989 * Scale, 23000 * Scale, 58900 * Scale,
     59890 * Scale}

\* Sampled curtain heights (tenths): none, negative, two panels per roll,
\* one panel per roll, longer than a roll.
HeightChoices == {0, -100 * Scale, 2500 * Scale, 5000 * Scale, 6000 * Scale}

\* One copy of each distinct findOptimalSolution: src/app.js:183-286,
\* src/app.js:1466-1569 and src/unnamed/part_001:193-296 are the same text, and
\* so are src/app.js:1025-1085 and src/unnamed/part_000:174-234.
CalcVariants == {"rollLengthLang", "cmLang", "fold1800", "mm"}

\* Only the roll-length-aware findOptimalSolution reads state.curtainHeight.
HeightsRead(v) == IF Algorithm(v) = "RL" THEN HeightChoices ELSE {2500 * Scale}

InitCalc ==
    /\ variant \in CalcVariants
    /\ curtainHeight \in HeightsRead(variant)
    /\ curtainWidth \in WidthChoices
    /\ fabricInventory \in Inventories
    /\ diagramLanguage = "en"
    /\ results = [kind |-> "initial"]
    /\ diagram = Null
    /\ diagramSolution = Null
    /\ exportDisabled = TRUE
    /\ lastCall = NoCall

\* Mutant of Invoke: the search takes a roll of the chosen width out of
\* state.fabricInventory.
InvokeConsuming ==
    /\ ~lastCall.called
    /\ lastCall' = Invocation(variant, "direct", curtainWidth, curtainHeight,
                              fabricInventory)
    /\ fabricInventory' =
           IF lastCall'.result = Null THEN fabricInventory
           ELSE [fabricInventory EXCEPT ![lastCall'.result.fabricWidth] = @ - 1]
    /\ UNCHANGED <<variant, curtainHeight, curtainWidth, diagramLanguage, results,
                   diagram, diagramSolution, exportDisabled>>

\* findOptimalSolution() called on the current state: it reads
\* state.curtainWidth, state.curtainHeight and state.fabricInventory and
\* assigns only its own locals.
Invoke ==
    /\ ~lastCall.called
    /\ lastCall' = Invocation(variant, "direct", curtainWidth, curtainHeight,
                              fabricInventory)
    /\ UNCHANGED <<variant, curtainHeight, curtainWidth, fabricInventory,
                   diagramLanguage, results, diagram, diagramSolution, exportDisabled>>

NextCalc == Invoke

SpecCalc == InitCalc /\ [][NextCalc]_vars

(* ------------------------------- claims -------------------------------- *)
\* The candidates <<index of the fabric width, parts>> of the latest call,
\* what the loop body makes of each, and those that pass every check.
CallCandidates ==
    UNION {{<<i, p>> : p \in SearchRange(variant, lastCall.curtainWidth,
                                          lastCall.curtainHeight,
                                          lastCall.fabricInventory, fabricWidths[i])}
              : i \in 1..Len(fabricWidths)}
CallEval(c) ==
    EvalCandidate(variant, lastCall.curtainWidth, lastCall.curtainHeight,
                  lastCall.fabricInventory, fabricWidths[c[1]], c[2])
CallValid == {c \in CallCandidates : CallEval(c).verdict = "valid"}
Returned == lastCall.called /\ lastCall.result # Null
\* c comes before d in the iteration order of the two loops.
Precedes(c, d) == c[1] < d[1] \/ (c[1] = d[1] /\ c[2] < d[2])
ResultCandidate ==
    <<CHOOSE i \in 1..Len(fabricWidths) : fabricWidths[i] = lastCall.result.fabricWidth,
      lastCall.result.parts>>

\* C1: whenever some candidate of the search passes every check, a Solution
\* is returned and its waste is at most the waste of every such candidate.
C1_Optimality ==
    lastCall.called =>
        \A c \in CallValid :
            /\ lastCall.result # Null
            /\ lastCall.result.waste <= CallEval(c).solution.waste
\* A call that had candidates of different waste to choose from.
C1_Witness ==
    /\ Returned
    /\ \E c \in CallValid : CallEval(c).solution.waste > lastCall.result.waste

\* C2: in every Solution returned, outerPanelWidth = netWidth + outer fold and
\* innerPanelWidth = netWidth + inner fold, the folds being 180 and 80, or
\* 1800 and 800 in the 1800/800 copy.
C2_PanelWidths ==
    Returned =>
        LET outerFold == IF variant = "fold1800" THEN 1800 * Scale ELSE 180 * Scale
            innerFold == IF variant = "fold1800" THEN 800 * Scale ELSE 80 * Scale
        IN  /\ lastCall.result.outerPanelWidth = lastCall.result.netWidth + outerFold
            /\ lastCall.result.innerPanelWidth = lastCall.result.netWidth + innerFold
\* The 1800/800 copy returned a Solution.
C2_Witness == Returned /\ variant = "fold1800" /\ lastCall.result.netWidth > 0

\* C3: in every Solution returned, both cut widths are at most the width of
\* the chosen roll (the roll width / 10 in the cm copies).
C3_FitsRoll ==
    Returned =>
        LET roll == IF variant \in {"cm", "cmLang"}
                    THEN (lastCall.result.fabricWidth * Scale) \div 10
                    ELSE lastCall.result.fabricWidth * Scale
        IN  /\ lastCall.result.outerPanelWidth <= roll
            /\ lastCall.result.innerPanelWidth <= roll
\* A Solution was returned by a search that dropped a candidate as too wide.
C3_Witness ==
    /\ Returned
    /\ \E c \in CallCandidates : CallEval(c).verdict = "tooWide"

\* C4: every Solution returned has at least 2 parts.
C4_AtLeastTwoParts == Returned => lastCall.result.parts >= 2
\* A Solution for a curtain that, with its outer hems, fits one roll width.
C4_Witness ==
    /\ Returned
    /\ lastCall.curtainWidth > 0
    /\ lastCall.curtainWidth + OUTER_FOLD_MM(variant)
           <= FabricWidthUnits(variant, lastCall.result.fabricWidth)

\* C5: every Solution returned has waste >= 0, also in the cm copies, and no
\* candidate that passed the fit check is dropped for negative waste.
C5_WasteNonNegative ==
    lastCall.called =>
        /\ lastCall.result # Null => lastCall.result.waste >= 0
        /\ \A c \in CallCandidates : CallEval(c).verdict # "negativeWaste"
\* A cm copy returned a Solution.
C5_Witness == Returned /\ Algorithm(variant) = "CM"

\* C6: the Solution returned is the first candidate, in the order of the
\* loops (fabric widths 2100, 2000, 1900, 1500, then parts ascending), among
\* the valid candidates of minimal waste.
C6_FirstOfTies ==
    Returned =>
        /\ ResultCandidate \in CallValid
        /\ CallEval(ResultCandidate).solution = lastCall.result
        /\ \A c \in CallValid :
               CallEval(c).solution.waste = lastCall.result.waste
                   => ~Precedes(c, ResultCandidate)
\* A later candidate tied with the Solution returned.
C6_Witness ==
    /\ Returned
    /\ \E c \in CallValid :
           /\ Precedes(ResultCandidate, c)
           /\ CallEval(c).solution.waste = lastCall.result.waste

\* C7: every call returns: each parts loop has a finite upper bound, and the
\* result is null exactly when no candidate passes every check.
C7_Total ==
    lastCall.called =>
        /\ \A w \in FabricWidthSet :
               ~SkipFabric(variant, lastCall.curtainHeight, lastCall.fabricInventory[w])
                   => MaxPartsToTest(variant, lastCall.curtainWidth,
                                     lastCall.curtainHeight,
                                     lastCall.fabricInventory[w], w) < Infinity
        /\ (lastCall.result = Null) <=> (CallValid = {})
\* A search over stocked widths, with no height given, that found nothing.
C7_Witness ==
    /\ lastCall.called
    /\ lastCall.result = Null
    /\ CallCandidates # {}
    /\ lastCall.curtainHeight = 0

\* C9: a call of findOptimalSolution leaves state.fabricInventory,
\* state.curtainWidth and state.curtainHeight as they were.
C9_StateUnchanged ==
    [][lastCall' # lastCall =>
           /\ fabricInventory' = fabricInventory
           /\ curtainWidth' = curtainWidth
           /\ curtainHeight' = curtainHeight]_vars
\* A call returned a Solution that uses rolls, and the inventory is what the
\* call read.
C9_Witness ==
    /\ Returned
    /\ lastCall.fabricInventory = fabricInventory
    /\ fabricInventory[lastCall.result.fabricWidth] > 0

\* C10: findOptimalSolution is never invoked while every inventory count is
\* 0 or while the curtain width is <= 0.
C10_CallerGuard ==
    lastCall.called =>
        /\ lastCall.curtainWidth > 0
        /\ totalInventory(lastCall.fabricInventory) > 0

\* C11: a call made with every inventory count 0, or with a curtain width
\* <= 0, returns null, in every copy.
C11_NullOutsidePrecondition ==
    (/\ lastCall.called
     /\ \/ totalInventory(lastCall.fabricInventory) = 0
        \/ lastCall.curtainWidth <= 0)
        => lastCall.result = Null

\* C12 as stated: in every copy no candidate with more than 30 parts is
\* evaluated and no Solution returned has more than 30 parts.
C12_PartsCappedAt30 ==
    lastCall.called =>
        /\ \A c \in CallCandidates : c[2] <= 30
        /\ lastCall.result # Null => lastCall.result.parts <= 30

\* C12 amended: the ceiling of 30 holds in the roll-length-aware copies; in
\* the other copies the parts loop runs up to the roll count of the width, so
\* a candidate has at most max(30, rolls) parts and a Solution returned has
\* at most as many parts as the chosen width has rolls.
C12_PartsCappedOrByRolls ==
    lastCall.called =>
        IF Algorithm(variant) = "RL"
        THEN /\ \A c \in CallCandidates : c[2] <= 30
             /\ lastCall.result # Null => lastCall.result.parts <= 30
        ELSE /\ \A c \in CallCandidates :
                    \/ c[2] <= 30
                    \/ c[2] <= lastCall.fabricInventory[fabricWidths[c[1]]]
             /\ lastCall.result # Null =>
                    lastCall.result.parts
                        <= lastCall.fabricInventory[lastCall.result.fabricWidth]
\* A Solution of more than 30 parts, cut from a width with more than 30 rolls.
C12_Witness ==
    /\ Returned
    /\ lastCall.result.parts > 30
    /\ lastCall.fabricInventory[lastCall.result.fabricWidth] > 30

\* C13: in the copies where the roll count alone limits the part count (all
\* but the roll-length-aware ones), the candidate with as many parts as the
\* width has rolls is in the search range and passes the roll check; when it
\* is the only candidate that passes every check, it is the Solution returned.
C13_BoundaryIncluded ==
    (lastCall.called /\ Algorithm(variant) # "RL") =>
        \A candidates \in {CallCandidates} : \A valid \in {CallValid} :
            \A i \in 1..Len(fabricWidths) :
                LET rolls == lastCall.fabricInventory[fabricWidths[i]]
                IN  rolls >= 2 =>
                        /\ <<i, rolls>> \in candidates
                        /\ CallEval(<<i, rolls>>).verdict # "notEnoughRolls"
                        /\ valid = {<<i, rolls>>} =>
                               lastCall.result = CallEval(<<i, rolls>>).solution
\* The only valid candidate of a call used every roll of its width.
C13_Witness ==
    /\ Returned
    /\ Algorithm(variant) # "RL"
    /\ CallValid = {ResultCandidate}
    /\ lastCall.result.parts = lastCall.fabricInventory[lastCall.result.fabricWidth]

\* C14: every Solution the roll-length-aware copies return has
\* panelsPerRoll = floor(5000 / curtainHeight) and rollsNeeded =
\* ceil(parts / panelsPerRoll), and needs no more rolls than the chosen width
\* has. (With curtainHeight = 0 the quotient 5000 / 0 is Infinity in the
\* program, and ceil(parts / Infinity) is 0.)
C14_RollsNeeded ==
    (Returned /\ Algorithm(variant) = "RL") =>
        LET s == lastCall.result
            H == lastCall.curtainHeight
        IN  /\ IF H = 0
               THEN s.panelsPerRoll = Infinity /\ s.rollsNeeded = 0
               ELSE /\ H > 0
                    /\ s.panelsPerRoll * H <= 5000 * Scale
                    /\ 5000 * Scale < (s.panelsPerRoll + 1) * H
                    /\ (s.rollsNeeded - 1) * s.panelsPerRoll < s.parts
                    /\ s.parts <= s.rollsNeeded * s.panelsPerRoll
            /\ s.rollsNeeded <= lastCall.fabricInventory[s.fabricWidth]
\* A Solution with an odd number of panels, two to a roll, on several rolls.
C14_Witness ==
    /\ Returned
    /\ Algorithm(variant) = "RL"
    /\ lastCall.result.panelsPerRoll = 2
    /\ lastCall.result.parts % 2 = 1
    /\ lastCall.result.rollsNeeded >= 2

\* C15: every Solution returned has waste = 2 * (fabricWidth - outerPanelWidth)
\* + (parts - 2) * (fabricWidth - innerPanelWidth), fabricWidth being the
\* width of the chosen roll in the unit of the copy (the roll width / 10 in
\* the cm copies).
C15_WasteFormula ==
    Returned =>
        LET s == lastCall.result
            roll == IF variant \in {"cm", "cmLang"}
                    THEN (s.fabricWidth * Scale) \div 10
                    ELSE s.fabricWidth * Scale
        IN  s.waste = 2 * (roll - s.outerPanelWidth)
                      + (s.parts - 2) * (roll - s.innerPanelWidth)
\* A Solution with inner panels and some waste.
C15_Witness ==
    /\ Returned
    /\ lastCall.result.parts >= 3
    /\ lastCall.result.waste > 0

\* C16: in the copies that take the curtain width as the sum of the net
\* widths (the roll-length-aware and the mm copies), the netWidth returned is
\* curtainWidth / parts rounded to one decimal place, a half tenth rounded
\* up, so parts * netWidth is within 0.05 * parts of curtainWidth. (Lengths
\* are in tenths: n is the rounded quotient iff n <= W / p + 1/2 < n + 1.)
C16_NetWidthRounded ==
    (Returned /\ Algorithm(variant) \in {"RL", "MM"}) =>
        LET p == lastCall.result.parts
            n == lastCall.result.netWidth
            W == lastCall.curtainWidth
        IN  /\ 2 * p * n <= 2 * W + p
            /\ 2 * W + p < 2 * p * (n + 1)
            /\ 2 * (p * n - W) <= p
            /\ 2 * (W - p * n) <= p
\* A quotient that ends in a half tenth, which the rounding moved up.
C16_Witness ==
    /\ Returned
    /\ Algorithm(variant) \in {"RL", "MM"}
    /\ 2 * (lastCall.result.parts * lastCall.result.netWidth - lastCall.curtainWidth)
           = lastCall.result.parts

\* C17: in the cm copies, for every candidate that is not rejected for a
\* non-integer netWidth, netWidth is an integer and the cut widths
\* 2 * (netWidth + 180) + (parts - 2) * (netWidth + 80) sum to the curtain
\* width plus the hem allowance 2 * 180 + (parts - 2) * 80.
C17_CutWidthsSum ==
    (lastCall.called /\ Algorithm(variant) = "CM") =>
        \A c \in CallCandidates :
            CallEval(c).verdict # "netWidthRejected" =>
                LET s == CallEval(c).solution
                    hems == 2 * 180 * Scale + (s.parts - 2) * 80 * Scale
                IN  /\ s.netWidth % Scale = 0
                    /\ 2 * s.outerPanelWidth + (s.parts - 2) * s.innerPanelWidth
                           = lastCall.curtainWidth + hems

\* C18: through any sequence of plus and minus clicks every count of
\* state.fabricInventory is a non-negative integer; a minus click on a width
\* whose count is 0 leaves the inventory as it is; and a step that changes
\* the inventory changes the count of one width, the clicked one, by exactly 1.
C18_InventoryClicks ==
    /\ [](\A w \in FabricWidthSet : fabricInventory[w] \in Nat)
    /\ [][/\ \A w \in FabricWidthSet :
                (MinusClick(w) /\ fabricInventory[w] = 0)
                    => fabricInventory' = fabricInventory
          /\ \A w \in FabricWidthSet :
                PlusClick(w)
                    => fabricInventory' = [fabricInventory EXCEPT ![w] = @ + 1]
          /\ \A w \in FabricWidthSet :
                (MinusClick(w) /\ fabricInventory[w] > 0)
                    => fabricInventory' = [fabricInventory EXCEPT ![w] = @ - 1]
          /\ fabricInventory' # fabricInventory
                => \E w \in FabricWidthSet :
                      \/ fabricInventory' = [fabricInventory EXCEPT ![w] = @ + 1]
                      \/ fabricInventory' = [fabricInventory EXCEPT ![w] = @ - 1]]_vars
\* Minus clicks took the stocked width of a copy that starts with 4 rolls
\* of 1900 down to 0, and a plus click added a roll of another width.
C18_Witness ==
    /\ AutoCalculate(variant)
    /\ fabricInventory[1900] = 0
    /\ fabricInventory[2100] = 1

\* C19: scenario (a). A cm copy called with curtain width 5989 and only
\* 1900 mm fabric in stock, rolls >= 2 of it: the result is the part count p
\* in 2..rolls of least waste among those whose netWidth
\* (5989 + 360 + (p - 2) * 80) / p is an integer and whose cut widths
\* netWidth + 180 and netWidth + 80 are at most 190, and null only when there
\* is no such p. (Plain centimetres here. For this width netWidth + 180 =
\* 260 + 6189 / p exceeds 190 at every p, so the result is null.)
C19_ScenarioA ==
    (/\ lastCall.called
     /\ Algorithm(variant) = "CM"
     /\ lastCall.curtainWidth = 5989 * Scale
     /\ lastCall.fabricInventory[1900] >= 2
     /\ \A w \in FabricWidthSet \ {1900} : lastCall.fabricInventory[w] = 0)
        => LET rolls == lastCall.fabricInventory[1900]
               sum(p) == 5989 + 360 + (p - 2) * 80
               net(p) == sum(p) \div p
               waste(p) == 2 * (190 - (net(p) + 180)) + (p - 2) * (190 - (net(p) + 80))
               feasible == {p \in 2..rolls :
                               /\ sum(p) % p = 0
                               /\ net(p) + 180 <= 190
                               /\ net(p) + 80 <= 190}
           IN  /\ (lastCall.result = Null) <=> (feasible = {})
               /\ lastCall.result # Null =>
                      /\ lastCall.result.fabricWidth = 1900
                      /\ lastCall.result.parts \in feasible
                      /\ lastCall.result.netWidth = net(lastCall.result.parts) * Scale
                      /\ \A q \in feasible :
                             waste(lastCall.result.parts) <= waste(q)
\* The default state of the cm copies was searched: three parts give the
\* integer netWidth 2143, too wide for the roll, and the result is null.
C19_Witness ==
    /\ lastCall.called
    /\ Algorithm(variant) = "CM"
    /\ lastCall.curtainWidth = 5989 * Scale
    /\ lastCall.fabricInventory = [EmptyInventory EXCEPT ![1900] = 4]
    /\ CallEval(<<3, 3>>).verdict = "tooWide"
    /\ CallEval(<<3, 3>>).solution.netWidth = 2143 * Scale
    /\ lastCall.result = Null

\* C20: scenario (b). The 1800/800 copy called with curtain width 59890 and
\* 4 rolls of 1900 mm fabric only: every part count whose outer cut width
\* netWidth + 1800 exceeds 1900 is rejected, and the result is the part count
\* in 2..4 of least waste among the feasible ones, or null when none is
\* feasible. (Tenths of a millimetre here; netWidth is (59890 - 2 * 1800 -
\* (p - 2) * 800) / p rounded to one decimal place.)
C20_ScenarioB ==
    (/\ lastCall.called
     /\ variant = "fold1800"
     /\ lastCall.curtainWidth = 598900
     /\ lastCall.fabricInventory = [w \in FabricWidthSet |-> IF w = 1900 THEN 4 ELSE 0])
        => LET num(p) == 598900 - 2 * 18000 - (p - 2) * 8000
               net(p) == (2 * num(p) + p) \div (2 * p)
               outer(p) == net(p) + 18000
               inner(p) == net(p) + 8000
               waste(p) == 2 * (19000 - outer(p)) + (p - 2) * (19000 - inner(p))
               feasible == {p \in 2..4 :
                               /\ num(p) > 0
                               /\ outer(p) <= 19000
                               /\ inner(p) <= 19000
                               /\ waste(p) >= 0}
           IN  /\ \A p \in 2..4 :
                      outer(p) > 19000 =>
                          /\ <<3, p>> \in CallCandidates
                          /\ CallEval(<<3, p>>).solution.outerPanelWidth = outer(p)
                          /\ CallEval(<<3, p>>).verdict = "tooWide"
               /\ (lastCall.result = Null) <=> (feasible = {})
               /\ lastCall.result # Null =>
                      /\ lastCall.result.fabricWidth = 1900
                      /\ lastCall.result.parts \in feasible
                      /\ lastCall.result.netWidth = net(lastCall.result.parts)
                      /\ \A q \in feasible :
                             waste(lastCall.result.parts) <= waste(q)
\* The default state of the 1800/800 copy was searched: 2, 3 and 4 parts are
\* all too wide for the 1900 roll, and the result is null.
C20_Witness ==
    /\ lastCall.called
    /\ variant = "fold1800"
    /\ lastCall.curtainWidth = 59890 * Scale
    /\ lastCall.fabricInventory = [EmptyInventory EXCEPT ![1900] = 4]
    /\ \A p \in 2..4 : CallEval(<<3, p>>).verdict = "tooWide"
    /\ CallEval(<<3, 4>>).solution.outerPanelWidth = 154725
    /\ lastCall.result = Null

\* A step in which calculate() ran: a click on the calculate button, or, in
\* the copies that recalculate on every event, a dimension input or a click
\* that changed the inventory.
CalculateRan ==
    \/ CalculateClick
    \/ /\ AutoCalculate(variant)
       /\ \/ \E h \in HeightInputs : HeightInput(h)
          \/ \E w \in WidthInputs : WidthInput(w)
          \/ \E width \in FabricWidthSet : PlusClick(width)
          \/ \E width \in FabricWidthSet :
                 MinusClick(width) /\ fabricInventory[width] > 0

C22_PartsWithinRolls ==
    (Returned /\ Algorithm(variant) \in {"MM", "F1800"}) =>
        LET rolls == lastCall.fabricInventory[lastCall.result.fabricWidth]
        IN  /\ 2 <= lastCall.result.parts
            /\ lastCall.result.parts <= rolls
            /\ rolls # 0
            /\ rolls # 1
\* A Solution that uses both rolls of its width, found by a loop that ran
\* past the roll count.
C22_Witness ==
    /\ Returned
    /\ Algorithm(variant) \in {"MM", "F1800"}
    /\ lastCall.result.parts = 2
    /\ lastCall.fabricInventory[lastCall.result.fabricWidth] = 2
    /\ \E c \in CallCandidates : c[2] > 2 /\ CallEval(c).verdict = "notEnoughRolls"

\* C23: in the roll-length-aware copies, with curtainHeight > 5000 no panel
\* can be cut from a roll: every fabric width is passed over, no candidate is
\* evaluated, and the result is null, whatever the width and the inventory.
C23_TooHighIsNull ==
    (/\ lastCall.called
     /\ Algorithm(variant) = "RL"
     /\ lastCall.curtainHeight > 5000 * Scale)
        => /\ lastCall.result = Null
           /\ CallCandidates = {}
\* A call with height 6000, for a width and an inventory that give a layout
\* at height 5000 (two parts, one roll each).
C23_Witness ==
    /\ lastCall.called
    /\ Algorithm(variant) = "RL"
    /\ lastCall.curtainHeight = 6000 * Scale
    /\ lastCall.curtainWidth = 1500 * Scale
    /\ lastCall.fabricInventory[2100] >= 2
    /\ lastCall.result = Null

C25_CmAlwaysNull ==
    (/\ lastCall.called
     /\ Algorithm(variant) = "CM"
     /\ lastCall.curtainWidth > 0)
        => /\ lastCall.result = Null
           /\ \A c \in CallCandidates :
                  \/ CallEval(c).verdict = "netWidthRejected"
                  \/ /\ CallEval(c).verdict = "tooWide"
                     /\ CallEval(c).solution.outerPanelWidth > 210 * Scale
\* A cm copy searched the widest roll for a positive curtain width, found an
\* integer netWidth, and returned null.
C25_Witness ==
    /\ lastCall.called
    /\ Algorithm(variant) = "CM"
    /\ lastCall.curtainWidth > 0
    /\ lastCall.fabricInventory[2100] >= 2
    /\ \E c \in CallCandidates : c[1] = 1 /\ CallEval(c).verdict = "tooWide"
    /\ lastCall.result = Null

\* C26: in the copies with netWidth = curtainWidth / parts rounded to one
\* decimal (the roll-length-aware and the mm copies), among the candidates
\* of one fabric width that pass every check the waste grows strictly with
\* the part count, so the Solution returned has the smallest part count that
\* passes the checks on the width it is cut from.
C26_SmallestParts ==
    (lastCall.called /\ Algorithm(variant) \in {"RL", "MM"}) =>
        \A valid \in {CallValid} :
            \A waste \in {[c \in valid |-> CallEval(c).solution.waste]} :
                /\ \A c \in valid : \A d \in valid :
                       (c[1] = d[1] /\ c[2] < d[2]) => waste[c] < waste[d]
                /\ lastCall.result # Null =>
                       \A c \in valid :
                           c[1] = ResultCandidate[1] => lastCall.result.parts <= c[2]
\* The width of the Solution returned had a valid candidate of more parts.
C26_Witness ==
    /\ Returned
    /\ Algorithm(variant) \in {"RL", "MM"}
    /\ \E c \in CallValid :
           c[1] = ResultCandidate[1] /\ c[2] > lastCall.result.parts + 1

\* The candidates of the latest call had the parts loop of the
\* roll-length-aware copies run up to min(availableRolls * panelsPerRoll, 30),
\* without the bound ceil(curtainWidth / fabricWidth) + 5, and those that
\* pass every check.
UnboundedCandidates ==
    UNION {IF SkipFabric(variant, lastCall.curtainHeight,
                         lastCall.fabricInventory[fabricWidths[i]])
           THEN {}
           ELSE {<<i, p>> : p \in 2..Min2(Times(lastCall.fabricInventory[fabricWidths[i]],
                                               PanelsPerRoll(lastCall.curtainHeight)),
                                         30)}
              : i \in 1..Len(fabricWidths)}
UnboundedValid == {c \in UnboundedCandidates : CallEval(c).verdict = "valid"}

\* C27: in the roll-length-aware copies the bound
\* ceil(curtainWidth / fabricWidth) + 5 never changes the answer: the result
\* is what the same search gives with the upper bound
\* min(availableRolls * panelsPerRoll, 30), null when that search has no
\* valid candidate and otherwise its first candidate of least waste.
C27_HeuristicBoundHarmless ==
    (lastCall.called /\ Algorithm(variant) = "RL") =>
        \A valid \in {UnboundedValid} :
            /\ (lastCall.result = Null) <=> (valid = {})
            /\ lastCall.result # Null =>
                   /\ ResultCandidate \in valid
                   /\ CallEval(ResultCandidate).solution = lastCall.result
                   /\ \A c \in valid :
                          \A waste \in {CallEval(c).solution.waste} :
                              \/ waste > lastCall.result.waste
                              \/ /\ waste = lastCall.result.waste
                                 /\ ~Precedes(c, ResultCandidate)
\* A Solution from a search the heuristic bound cut short: valid candidates
\* lie beyond it.
C27_Witness ==
    /\ Returned
    /\ Algorithm(variant) = "RL"
    /\ UnboundedValid \ CallCandidates # {}

\* C28: in the button-driven roll-length-aware copies, whenever calculate()
\* clears a diagram that was shown (invalid dimensions, empty inventory, or
\* no solution), the export button is disabled afterwards.
C28_ExportDisabledWhenCleared ==
    [][(/\ Algorithm(variant) = "RL"
        /\ CalculateClick
        /\ diagram # Null
        /\ diagram' = Null)
           => exportDisabled']_vars

\* C29: in the roll-length-aware copies every Solution returned along any
\* sequence of events, the language-change path included, has a finite
\* panelsPerRoll >= 1 and 1 <= rollsNeeded <= the roll count of its width.
C29_FinitePanelsPerRoll ==
    (Returned /\ Algorithm(variant) = "RL") =>
        /\ lastCall.result.panelsPerRoll >= 1
        /\ lastCall.result.panelsPerRoll < Infinity
        /\ 1 <= lastCall.result.rollsNeeded
        /\ lastCall.result.rollsNeeded
               <= lastCall.fabricInventory[lastCall.result.fabricWidth]

\* C30: after any sequence of events the diagram and the results panel show
\* the same Solution: no diagram is shown while the results panel shows a
\* placeholder or the no-solution error, the diagram shown is that of the
\* Solution in the results panel, and state.diagramSolution is that Solution
\* (the copy at src/app.js:917 keeps no state.diagramSolution).
C30_DisplayConsistent ==
    diagram # Null =>
        /\ results.kind = "solution"
        /\ diagram.solution = results.solution
        /\ variant # "cm" => diagramSolution = results.solution

====
